---- MODULE Spec2Model ----
(***************************************************************************)
(* Model of Thread (src/threading/thread.cpp): the lifecycle operations    *)
(* start, stop, wait, kill, getReturnValue executed by caller contexts,    *)
(* and the trampoline threadProc executed by every spawned native context. *)
(* Every action is one shared-memory access (or one blocking primitive) of *)
(* the code, so that every interleaving of callers and trampolines that    *)
(* the build can produce is a behaviour of the model.                      *)
(***************************************************************************)
EXTENDS Integers, FiniteSets, Sequences, TLC

\* ---- bounds ----------------------------------------------------------
MaxSpawn == 2      \* native contexts spawned in one behaviour
MaxVal == 2        \* distinct non-null results a work function may return
MaxCallers == 2    \* caller contexts that use the instance concurrently
MaxCallsConc == 3  \* calls made in a behaviour with two callers

NULL == 0

Callers == 1..MaxCallers
Ctx == 1..MaxSpawn
RetVals == 1..MaxVal
Platforms == {"win32", "android", "pthread"}
WorkReturns == {"now", "onstop", "never"}
Terminated == {"done", "cancelled", "killed"}
Live == {"entry", "registered", "lock", "run", "ret", "exit"}

VARIABLES
  \* Thread members
  m_running, m_joinable, m_request_stop, m_retval, m_thread_obj,
  m_mutex, m_start_finished_mutex,
  \* build and work function of the instance
  platform, workReturns, workCancelPts, ncallers,
  \* the process
  alive, assertFailed,
  \* caller contexts
  pc, inKill, newObj, last, ncalls, scen,
  \* native contexts
  tpc, cancelReq, joined, closed, nthreads,
  \* logging collaborator
  nRegister, nDeregister,
  \* history
  cycle, rises, falls, lastRet, pre

inst == <<m_running, m_joinable, m_request_stop, m_retval, m_thread_obj>>
locks == <<m_mutex, m_start_finished_mutex>>
env == <<platform, workReturns, workCancelPts, ncallers>>
proc == <<alive, assertFailed>>
callerv == <<pc, inKill, newObj, last, ncalls, scen>>
ctxv == <<tpc, cancelReq, joined, closed, nthreads>>
logger == <<nRegister, nDeregister>>
hist == <<cycle, rises, falls, lastRet, pre>>
vars == <<inst, locks, env, proc, callerv, ctxv, logger, hist>>

\* what the latest call to return has returned, until the next call is made:
\* who called, which operation, its result, and what it wrote to its out
\* parameter (-1: nothing)
NoCall == [who |-> 0, op |-> "none", ret |-> FALSE, out |-> -1]
Returned(c, o, r, w) == [who |-> c, op |-> o, ret |-> r, out |-> w]

\* the members as the start() or kill() in progress found them when it was
\* called; recorded for a single caller only, as with concurrent callers
\* "the state before the call" keeps changing during the call
NoSnapshot == <<FALSE, FALSE, FALSE, NULL, NULL, FALSE>>
Snapshot ==
  IF ncallers = 1
    THEN <<m_running, m_joinable, m_request_stop, m_retval, m_thread_obj,
           m_start_finished_mutex>>
    ELSE NoSnapshot

\* the handle member before the first start()
InitialHandle == NULL

\* Thread::Thread
Init ==
  /\ m_running = FALSE
  /\ m_joinable = FALSE
  /\ m_request_stop = FALSE
  /\ m_retval = NULL
  /\ m_thread_obj = InitialHandle
  /\ m_mutex = 0            \* 0: unlocked, c: held by caller c
  /\ m_start_finished_mutex = FALSE
  /\ platform \in Platforms
  /\ workReturns \in WorkReturns
  \* (cancellation points matter only where kill() uses pthread_cancel)
  /\ workCancelPts \in (IF platform = "pthread" THEN BOOLEAN ELSE {FALSE})
  /\ ncallers \in Callers
  /\ alive = TRUE
  /\ assertFailed = FALSE
  /\ pc = [c \in Callers |-> "idle"]
  /\ inKill = [c \in Callers |-> "no"]
  /\ newObj = [c \in Callers |-> NULL]
  /\ last = NoCall
  /\ ncalls = 0
  /\ scen = "off"
  /\ tpc = [i \in Ctx |-> "unborn"]
  /\ cancelReq = [i \in Ctx |-> FALSE]
  /\ joined = [i \in Ctx |-> FALSE]
  /\ closed = [i \in Ctx |-> FALSE]
  /\ nthreads = 0
  /\ nRegister = 0
  /\ nDeregister = 0
  /\ cycle = IF ncallers = 1 THEN "boundary" ELSE "broken"
  /\ rises = 0
  /\ falls = 0
  /\ lastRet = -1           \* -1: no result to report
  /\ pre = [c \in Callers |-> NoSnapshot]

\* a caller context that exists in this behaviour and is between calls
Idle(c) == alive /\ c <= ncallers /\ pc[c] = "idle"
At(c, l) == alive /\ pc[c] = l

\* history of the running flag: a write that changes its value
RunningWrite(new) ==
  /\ m_running' = new
  /\ rises' = IF cycle # "broken" /\ ~m_running /\ new THEN rises + 1 ELSE rises
  /\ falls' = IF cycle # "broken" /\ m_running /\ ~new THEN falls + 1 ELSE falls

\* history of the calling pattern start(); wait(); start(); wait(); ... of a
\* sole caller; with more callers the pattern counts as broken from the outset
CycleOnCall(op) ==
  IF op = "start" /\ cycle = "boundary" THEN "instart"
  ELSE IF op = "wait" /\ cycle = "started" THEN "inwait"
  ELSE "broken"

CycleOnReturn ==
  IF cycle = "instart" THEN "started"
  ELSE IF cycle = "inwait" THEN "boundary"
  ELSE cycle

\* the behaviour has calls left to make: a sole caller always, two callers
\* MaxCallsConc calls between them, and one call fewer for every further
\* caller
CallsLeft == ncallers = 1 \/ ncalls < MaxCallsConc + 2 - ncallers

\* how far a sole caller has come in the sequence start(); stop(); wait()
\* with a start() that returned true
ScenOnCall(op) ==
  IF ncallers # 1 THEN "off"
  ELSE IF op = "start" THEN "start"
  ELSE IF op = "stop" /\ scen = "start" /\ last = Returned(1, "start", TRUE, -1)
    THEN "stop"
  ELSE IF op = "wait" /\ scen = "stop" THEN "wait"
  ELSE "off"

\* a call is made
Call(op) ==
  /\ CallsLeft
  /\ scen' = ScenOnCall(op)
  /\ ncalls' = IF ncallers = 1 THEN ncalls ELSE ncalls + 1
  /\ cycle' = CycleOnCall(op)
  /\ IF CycleOnCall(op) \in {"instart", "broken"}
       THEN rises' = 0 /\ falls' = 0
       ELSE UNCHANGED <<rises, falls>>

\* a call returns r to caller c
Return(c, op, r, w) ==
  /\ pc' = [pc EXCEPT ![c] = "idle"]
  /\ last' = Returned(c, op, r, w)
  /\ pre' = [pre EXCEPT ![c] = NoSnapshot]

\* ---- Thread::start ---------------------------------------------------
\* callers inside start() that have not reached the spawn yet
StartsPending ==
  Cardinality({d \in Callers :
     pc[d] \in {"start_lock", "start_clear", "start_trylock", "start_spawn"}})

CallStart(c) ==
  /\ Idle(c)
  /\ nthreads + StartsPending < MaxSpawn
  /\ Call("start")
  /\ pc' = [pc EXCEPT ![c] = "start_lock"]
  /\ last' = NoCall
  /\ lastRet' = -1
  /\ pre' = [pre EXCEPT ![c] = Snapshot]
  /\ UNCHANGED <<inst, locks, env, proc, inKill, newObj, ctxv, logger>>

\* (variant: stopRequested is cleared before running is examined)
StartLock_ClearsStopFirst(c) ==
  /\ At(c, "start_lock")
  /\ m_mutex = 0
  /\ m_request_stop' = FALSE
  /\ IF m_running
       THEN /\ Return(c, "start", FALSE, -1)
            /\ cycle' = CycleOnReturn
            /\ UNCHANGED m_mutex
       ELSE /\ pc' = [pc EXCEPT ![c] = "start_clear"]
            /\ m_mutex' = c
            /\ UNCHANGED <<last, cycle, pre>>
  /\ UNCHANGED <<m_running, m_joinable, m_retval, m_thread_obj,
                 m_start_finished_mutex, env, proc, inKill, newObj,
                 ctxv, logger, rises, falls, lastRet>>
  /\ UNCHANGED <<ncalls, scen>>

\* MutexAutoLock lock(m_mutex); if (m_running) return false;
StartLock(c) ==
  /\ At(c, "start_lock")
  /\ m_mutex = 0
  /\ IF m_running
       THEN /\ Return(c, "start", FALSE, -1)
            /\ cycle' = CycleOnReturn
            /\ UNCHANGED m_mutex
       ELSE /\ pc' = [pc EXCEPT ![c] = "start_clear"]
            /\ m_mutex' = c
            /\ UNCHANGED <<last, cycle, pre>>
  /\ UNCHANGED <<inst, m_start_finished_mutex, env, proc, inKill, newObj,
                 ctxv, logger, rises, falls, lastRet>>
  /\ UNCHANGED <<ncalls, scen>>

\* m_request_stop = false;
StartClearStop(c) ==
  /\ At(c, "start_clear")
  /\ m_request_stop' = FALSE
  /\ pc' = [pc EXCEPT ![c] = "start_trylock"]
  /\ UNCHANGED <<m_running, m_joinable, m_retval, m_thread_obj, locks, env,
                 proc, inKill, newObj, last, ctxv, logger, hist>>
  /\ UNCHANGED <<ncalls, scen>>

\* (variant: start() spawns without taking the startup mutex first)
StartTryLock_Skipped(c) ==
  /\ At(c, "start_trylock")
  /\ pc' = [pc EXCEPT ![c] = "start_spawn"]
  /\ UNCHANGED <<inst, locks, env, proc, inKill, newObj, last, ctxv, logger,
                 hist>>
  /\ UNCHANGED <<ncalls, scen>>

\* m_start_finished_mutex.try_lock();
StartTryLock(c) ==
  /\ At(c, "start_trylock")
  /\ m_start_finished_mutex' = TRUE
  /\ pc' = [pc EXCEPT ![c] = "start_spawn"]
  /\ UNCHANGED <<inst, m_mutex, env, proc, inKill, newObj, last, ctxv,
                 logger, hist>>
  /\ UNCHANGED <<ncalls, scen>>

\* new std::thread(threadProc, this): the native context exists and may run
\* before the assignment to m_thread_obj
StartSpawn(c) ==
  /\ At(c, "start_spawn")
  /\ nthreads' = nthreads + 1
  /\ tpc' = [tpc EXCEPT ![nthreads + 1] = "entry"]
  /\ newObj' = [newObj EXCEPT ![c] = nthreads + 1]
  /\ pc' = [pc EXCEPT ![c] = "start_store"]
  /\ UNCHANGED <<inst, locks, env, proc, inKill, last, cancelReq, joined,
                 closed, logger, hist>>
  /\ UNCHANGED <<ncalls, scen>>

\* catch (const std::system_error &e) { return false; }
StartSpawnFail(c) ==
  /\ At(c, "start_spawn")
  /\ Return(c, "start", FALSE, -1)
  /\ m_mutex' = 0
  /\ cycle' = "broken"            \* "no spawn fails" no longer holds
  /\ rises' = 0
  /\ falls' = 0
  /\ UNCHANGED <<inst, m_start_finished_mutex, env, proc, inKill, newObj,
                 ctxv, logger, lastRet>>
  /\ UNCHANGED <<ncalls, scen>>

\* m_thread_obj = <the new std::thread>
StartStore(c) ==
  /\ At(c, "start_store")
  /\ m_thread_obj' = newObj[c]
  /\ newObj' = [newObj EXCEPT ![c] = NULL]
  /\ pc' = [pc EXCEPT ![c] = "start_unlock"]
  /\ UNCHANGED <<m_running, m_joinable, m_request_stop, m_retval, locks, env,
                 proc, inKill, last, ctxv, logger, hist>>
  /\ UNCHANGED <<ncalls, scen>>

\* (variant: start() returns without releasing the startup mutex)
StartUnlock_Forgets(c) ==
  /\ At(c, "start_unlock")
  /\ pc' = [pc EXCEPT ![c] = "start_poll"]
  /\ UNCHANGED <<inst, locks, env, proc, inKill, newObj, last, ctxv, logger,
                 hist>>
  /\ UNCHANGED <<ncalls, scen>>

\* m_start_finished_mutex.unlock();
StartUnlock(c) ==
  /\ At(c, "start_unlock")
  /\ m_start_finished_mutex' = FALSE
  /\ pc' = [pc EXCEPT ![c] = "start_poll"]
  /\ UNCHANGED <<inst, m_mutex, env, proc, inKill, newObj, last, ctxv,
                 logger, hist>>
  /\ UNCHANGED <<ncalls, scen>>

\* while (!m_running) sleep_ms(1);
StartPoll(c) ==
  /\ At(c, "start_poll")
  /\ m_running
  /\ pc' = [pc EXCEPT ![c] = "start_joinable"]
  /\ UNCHANGED <<inst, locks, env, proc, inKill, newObj, last, ctxv, logger,
                 hist>>
  /\ UNCHANGED <<ncalls, scen>>

\* (variant: start() returns without setting joinable)
StartSetJoinable_Forgets(c) ==
  /\ At(c, "start_joinable")
  /\ Return(c, "start", TRUE, -1)
  /\ m_mutex' = 0
  /\ cycle' = CycleOnReturn
  /\ UNCHANGED <<inst, m_start_finished_mutex, env, proc, inKill, newObj,
                 ctxv, logger, rises, falls, lastRet>>
  /\ UNCHANGED <<ncalls, scen>>

\* m_joinable = true; return true;
StartSetJoinable(c) ==
  /\ At(c, "start_joinable")
  /\ m_joinable' = TRUE
  /\ Return(c, "start", TRUE, -1)
  /\ m_mutex' = 0
  /\ cycle' = CycleOnReturn
  /\ UNCHANGED <<m_running, m_request_stop, m_retval, m_thread_obj,
                 m_start_finished_mutex, env, proc, inKill, newObj, ctxv,
                 logger, rises, falls, lastRet>>
  /\ UNCHANGED <<ncalls, scen>>

\* ---- Thread::stop ----------------------------------------------------
\* (variant: stop() takes the instance lock as start() and wait() do)
Stop_TakesInstanceLock(c) ==
  /\ Idle(c)
  /\ m_mutex = 0
  /\ Call("stop")
  /\ m_request_stop' = TRUE
  /\ Return(c, "stop", TRUE, -1)
  /\ UNCHANGED <<m_running, m_joinable, m_retval, m_thread_obj, locks, env,
                 proc, inKill, newObj, ctxv, logger, lastRet>>

\* m_request_stop = true; return true;
Stop(c) ==
  /\ Idle(c)
  /\ Call("stop")
  /\ m_request_stop' = TRUE
  /\ Return(c, "stop", TRUE, -1)
  /\ UNCHANGED <<m_running, m_joinable, m_retval, m_thread_obj, locks, env,
                 proc, inKill, newObj, ctxv, logger, lastRet>>

\* ---- Thread::wait ----------------------------------------------------
\* where a returning wait() continues: in the caller, or inside kill()
AfterWait(c, r) ==
  CASE inKill[c] = "no" ->
         /\ Return(c, "wait", r, -1)
         /\ cycle' = CycleOnReturn
         /\ UNCHANGED inKill
    [] inKill[c] = "idle" ->        \* kill(): wait(); return false;
         /\ Return(c, "kill", FALSE, -1)
         /\ inKill' = [inKill EXCEPT ![c] = "no"]
         /\ UNCHANGED cycle
    [] inKill[c] = "cancel" ->      \* kill(): pthread_cancel(); wait(); ...
         /\ pc' = [pc EXCEPT ![c] = "kill_retval"]
         /\ inKill' = [inKill EXCEPT ![c] = "no"]
         /\ UNCHANGED <<last, cycle, pre>>

\* (the caller still knows what its previous call returned)
CallWait(c) ==
  /\ Idle(c)
  /\ Call("wait")
  /\ pc' = [pc EXCEPT ![c] = "wait_lock"]
  /\ UNCHANGED <<inst, locks, env, proc, inKill, newObj, last, ctxv, logger,
                 lastRet, pre>>

\* (variant: wait() joins without examining joinable)
WaitLock_NoCheck(c) ==
  /\ At(c, "wait_lock")
  /\ m_mutex = 0
  /\ pc' = [pc EXCEPT ![c] = "wait_join"]
  /\ m_mutex' = c
  /\ UNCHANGED <<inst, m_start_finished_mutex, env, proc, inKill, newObj,
                 last, ctxv, logger, hist>>
  /\ UNCHANGED <<ncalls, scen>>

\* MutexAutoLock lock(m_mutex); if (!m_joinable) return false;
WaitLock(c) ==
  /\ At(c, "wait_lock")
  /\ m_mutex = 0
  /\ IF ~m_joinable
       THEN /\ AfterWait(c, FALSE)
            /\ UNCHANGED m_mutex
       ELSE /\ pc' = [pc EXCEPT ![c] = "wait_join"]
            /\ m_mutex' = c
            /\ UNCHANGED <<last, inKill, cycle, pre>>
  /\ UNCHANGED <<inst, m_start_finished_mutex, env, proc, newObj, ctxv,
                 logger, rises, falls, lastRet>>
  /\ UNCHANGED <<ncalls, scen>>

\* m_thread_obj->join(); delete m_thread_obj;
\* Joining through a null pointer, a deleted object or a closed handle is
\* undefined: the process ends.
WaitJoin(c) ==
  /\ At(c, "wait_join")
  /\ IF m_thread_obj = NULL \/ joined[m_thread_obj] \/ closed[m_thread_obj]
       THEN /\ alive' = FALSE
            /\ UNCHANGED <<pc, joined>>
       ELSE /\ tpc[m_thread_obj] \in Terminated
            /\ joined' = [joined EXCEPT ![m_thread_obj] = TRUE]
            /\ pc' = [pc EXCEPT ![c] = "wait_null"]
            /\ UNCHANGED alive
  /\ UNCHANGED <<inst, locks, env, assertFailed, inKill, newObj, last, tpc,
                 cancelReq, closed, nthreads, logger, hist>>
  /\ UNCHANGED <<ncalls, scen>>

\* m_thread_obj = NULL;
WaitNull(c) ==
  /\ At(c, "wait_null")
  /\ m_thread_obj' = NULL
  /\ pc' = [pc EXCEPT ![c] = "wait_assert"]
  /\ UNCHANGED <<m_running, m_joinable, m_request_stop, m_retval, locks, env,
                 proc, inKill, newObj, last, ctxv, logger, hist>>
  /\ UNCHANGED <<ncalls, scen>>

\* assert(m_running == false);
WaitAssert(c) ==
  /\ At(c, "wait_assert")
  /\ IF m_running
       THEN /\ assertFailed' = TRUE
            /\ alive' = FALSE
            /\ UNCHANGED pc
       ELSE /\ pc' = [pc EXCEPT ![c] = "wait_clear"]
            /\ UNCHANGED proc
  /\ UNCHANGED <<inst, locks, env, inKill, newObj, last, ctxv, logger, hist>>
  /\ UNCHANGED <<ncalls, scen>>

\* (variant: wait() returns true without clearing joinable)
WaitClearJoinable_Forgets(c) ==
  /\ At(c, "wait_clear")
  /\ m_mutex' = 0
  /\ AfterWait(c, TRUE)
  /\ UNCHANGED <<inst, m_start_finished_mutex, env, proc, newObj, ctxv, logger,
                 rises, falls, lastRet>>
  /\ UNCHANGED <<ncalls, scen>>

\* m_joinable = false; return true;
WaitClearJoinable(c) ==
  /\ At(c, "wait_clear")
  /\ m_joinable' = FALSE
  /\ m_mutex' = 0
  /\ AfterWait(c, TRUE)
  /\ UNCHANGED <<m_running, m_request_stop, m_retval, m_thread_obj,
                 m_start_finished_mutex, env, proc, newObj, ctxv, logger,
                 rises, falls, lastRet>>
  /\ UNCHANGED <<ncalls, scen>>

\* ---- Thread::kill ----------------------------------------------------
\* (variant: kill() of an instance that is not running returns false
\* without the wait())
Kill_NoReap(c) ==
  /\ Idle(c)
  /\ Call("kill")
  /\ lastRet' = -1
  /\ IF ~m_running
       THEN /\ Return(c, "kill", FALSE, -1)
            /\ UNCHANGED inKill
       ELSE /\ pc' = [pc EXCEPT ![c] = "kill_setrun"]
            /\ last' = NoCall
            /\ pre' = [pre EXCEPT ![c] = Snapshot]
            /\ UNCHANGED inKill
  /\ UNCHANGED <<inst, locks, env, proc, newObj, ctxv, logger>>

\* if (!m_running) { wait(); return false; }
Kill(c) ==
  /\ Idle(c)
  /\ Call("kill")
  /\ last' = NoCall
  /\ lastRet' = -1
  /\ pre' = [pre EXCEPT ![c] = Snapshot]
  /\ IF ~m_running
       THEN /\ pc' = [pc EXCEPT ![c] = "wait_lock"]
            /\ inKill' = [inKill EXCEPT ![c] = "idle"]
       ELSE /\ pc' = [pc EXCEPT ![c] = "kill_setrun"]
            /\ UNCHANGED inKill
  /\ UNCHANGED <<inst, locks, env, proc, newObj, ctxv, logger>>

\* m_running = false;
KillSetRunning(c) ==
  /\ At(c, "kill_setrun")
  /\ RunningWrite(FALSE)
  /\ pc' = [pc EXCEPT ![c] = "kill_term"]
  /\ UNCHANGED <<m_joinable, m_request_stop, m_retval, m_thread_obj, locks,
                 env, proc, inKill, newObj, last, ctxv, logger, cycle, lastRet, pre>>
  /\ UNCHANGED <<ncalls, scen>>

\* _WIN32:      TerminateThread(h, 0); CloseHandle(h);
\* __ANDROID__: pthread_kill(h, SIGKILL); wait();   SIGKILL ends the process
\* otherwise:   pthread_cancel(h); wait();
\* with h = m_thread_obj->native_handle(); a null or deleted m_thread_obj is
\* undefined: the process ends.
KillTerminate(c) ==
  /\ At(c, "kill_term")
  /\ IF m_thread_obj = NULL \/ joined[m_thread_obj] \/ platform = "android"
       THEN /\ alive' = FALSE
            /\ UNCHANGED <<pc, inKill, tpc, cancelReq, closed>>
       ELSE IF platform = "win32"
         THEN /\ tpc' = [tpc EXCEPT ![m_thread_obj] =
                           IF @ \in Live /\ ~closed[m_thread_obj]
                             THEN "killed" ELSE @]
              /\ closed' = [closed EXCEPT ![m_thread_obj] = TRUE]
              /\ pc' = [pc EXCEPT ![c] = "kill_retval"]
              /\ UNCHANGED <<alive, inKill, cancelReq>>
         ELSE /\ cancelReq' = [cancelReq EXCEPT ![m_thread_obj] = TRUE]
              /\ inKill' = [inKill EXCEPT ![c] = "cancel"]
              /\ pc' = [pc EXCEPT ![c] = "wait_lock"]
              /\ UNCHANGED <<alive, tpc, closed>>
  /\ UNCHANGED <<inst, locks, env, assertFailed, newObj, last, joined,
                 nthreads, logger, hist>>
  /\ UNCHANGED <<ncalls, scen>>

\* m_retval = NULL;
KillClearRetval(c) ==
  /\ At(c, "kill_retval")
  /\ m_retval' = NULL
  /\ lastRet' = -1
  /\ pc' = [pc EXCEPT ![c] = "kill_joinable"]
  /\ UNCHANGED <<m_running, m_joinable, m_request_stop, m_thread_obj, locks,
                 env, proc, inKill, newObj, last, ctxv, logger, cycle, rises,
                 falls, pre>>
  /\ UNCHANGED <<ncalls, scen>>

\* (variant: kill() leaves joinable as it is)
KillClearJoinable_Skipped(c) ==
  /\ At(c, "kill_joinable")
  /\ pc' = [pc EXCEPT ![c] = "kill_stop"]
  /\ UNCHANGED <<inst, locks, env, proc, inKill, newObj, last, ctxv, logger,
                 hist>>
  /\ UNCHANGED <<ncalls, scen>>

\* m_joinable = false;
KillClearJoinable(c) ==
  /\ At(c, "kill_joinable")
  /\ m_joinable' = FALSE
  /\ pc' = [pc EXCEPT ![c] = "kill_stop"]
  /\ UNCHANGED <<m_running, m_request_stop, m_retval, m_thread_obj, locks,
                 env, proc, inKill, newObj, last, ctxv, logger, hist>>
  /\ UNCHANGED <<ncalls, scen>>

\* m_request_stop = false; return true;
KillClearStop(c) ==
  /\ At(c, "kill_stop")
  /\ m_request_stop' = FALSE
  /\ Return(c, "kill", TRUE, -1)
  /\ UNCHANGED <<m_running, m_joinable, m_retval, m_thread_obj, locks, env,
                 proc, inKill, newObj, ctxv, logger, cycle, rises, falls,
                 lastRet>>
  /\ UNCHANGED <<ncalls, scen>>

\* ---- Thread::getReturnValue ------------------------------------------
\* (variant: getReturnValue does not examine running)
GetReturnValue_NoCheck(c) ==
  /\ Idle(c)
  /\ Call("getReturnValue")
  /\ pc' = [pc EXCEPT ![c] = "grv_read"]
  /\ last' = NoCall
  /\ UNCHANGED <<inst, locks, env, proc, inKill, newObj, ctxv, logger,
                 lastRet, pre>>

\* if (m_running) return false;
GetReturnValue(c) ==
  /\ Idle(c)
  /\ Call("getReturnValue")
  /\ IF m_running
       THEN Return(c, "getReturnValue", FALSE, -1)
       ELSE /\ pc' = [pc EXCEPT ![c] = "grv_read"]
            /\ last' = NoCall
            /\ UNCHANGED pre
  /\ UNCHANGED <<inst, locks, env, proc, inKill, newObj, ctxv, logger, lastRet>>

\* *ret = m_retval; return true;
GrvRead(c) ==
  /\ At(c, "grv_read")
  /\ Return(c, "getReturnValue", TRUE, m_retval)
  /\ UNCHANGED <<inst, locks, env, proc, inKill, newObj, ctxv, logger, cycle,
                 rises, falls, lastRet>>
  /\ UNCHANGED <<ncalls, scen>>

\* ---- Thread::threadProc (the trampoline of native context i) ----------
TAt(i, l) == alive /\ tpc[i] = l

\* thr->setName(thr->m_name); g_logger.registerThread(thr->m_name);
TRegister(i) ==
  /\ TAt(i, "entry")
  /\ nRegister' = nRegister + 1
  /\ tpc' = [tpc EXCEPT ![i] = "registered"]
  /\ UNCHANGED <<inst, locks, env, proc, callerv, cancelReq, joined, closed,
                 nthreads, nDeregister, hist>>

\* thr->m_running = true;
TSetRunning(i) ==
  /\ TAt(i, "registered")
  /\ RunningWrite(TRUE)
  /\ tpc' = [tpc EXCEPT ![i] = "lock"]
  /\ UNCHANGED <<m_joinable, m_request_stop, m_retval, m_thread_obj, locks,
                 env, proc, callerv, cancelReq, joined, closed, nthreads,
                 logger, cycle, lastRet, pre>>

\* thr->m_start_finished_mutex.lock();
TLockStartFinished(i) ==
  /\ TAt(i, "lock")
  /\ ~m_start_finished_mutex
  /\ m_start_finished_mutex' = TRUE
  /\ tpc' = [tpc EXCEPT ![i] = "run"]
  /\ UNCHANGED <<inst, m_mutex, env, proc, callerv, cancelReq, joined, closed,
                 nthreads, logger, hist>>

\* thr->m_retval = thr->run();  the work function returns v: at once, or
\* once it has seen stopRequested(), or never
TRunReturns(i) ==
  /\ TAt(i, "run")
  /\ \/ workReturns = "now"
     \/ workReturns = "onstop" /\ m_request_stop
  /\ \E v \in RetVals :
       /\ m_retval' = v
       /\ lastRet' = IF ncallers = 1 THEN v ELSE -1
  /\ tpc' = [tpc EXCEPT ![i] = "ret"]
  /\ UNCHANGED <<m_running, m_joinable, m_request_stop, m_thread_obj, locks,
                 env, proc, callerv, cancelReq, joined, closed, nthreads,
                 logger, cycle, rises, falls, pre>>

\* the work function reaches a cancellation point with a cancellation
\* request pending: the context ends inside run()
TRunCancelled(i) ==
  /\ TAt(i, "run")
  /\ workCancelPts
  /\ cancelReq[i]
  /\ tpc' = [tpc EXCEPT ![i] = "cancelled"]
  /\ UNCHANGED <<inst, locks, env, proc, callerv, cancelReq, joined, closed,
                 nthreads, logger, hist>>

\* (variant: the trampoline leaves running set when the work function has
\* returned)
TClearRunning_Forgets(i) ==
  /\ TAt(i, "ret")
  /\ tpc' = [tpc EXCEPT ![i] = "exit"]
  /\ UNCHANGED <<inst, locks, env, proc, callerv, cancelReq, joined, closed,
                 nthreads, logger, hist>>

\* thr->m_running = false;
TClearRunning(i) ==
  /\ TAt(i, "ret")
  /\ RunningWrite(FALSE)
  /\ tpc' = [tpc EXCEPT ![i] = "exit"]
  /\ UNCHANGED <<m_joinable, m_request_stop, m_retval, m_thread_obj, locks,
                 env, proc, callerv, cancelReq, joined, closed, nthreads,
                 logger, cycle, lastRet, pre>>

\* (variant: the trampoline returns without deregistering)
TDeregister_Skipped(i) ==
  /\ TAt(i, "exit")
  /\ tpc' = [tpc EXCEPT ![i] = "done"]
  /\ UNCHANGED <<inst, locks, env, proc, callerv, cancelReq, joined, closed,
                 nthreads, logger, hist>>

\* g_logger.deregisterThread(); return 0;
TDeregister(i) ==
  /\ TAt(i, "exit")
  /\ nDeregister' = nDeregister + 1
  /\ tpc' = [tpc EXCEPT ![i] = "done"]
  /\ UNCHANGED <<inst, locks, env, proc, callerv, cancelReq, joined, closed,
                 nthreads, nRegister, hist>>

\* ---- the program -----------------------------------------------------
Next ==
  \/ \E c \in Callers : CallStart(c)
  \/ \E c \in Callers : StartLock(c)
  \/ \E c \in Callers : StartClearStop(c)
  \/ \E c \in Callers : StartTryLock(c)
  \/ \E c \in Callers : StartSpawn(c)
  \/ \E c \in Callers : StartSpawnFail(c)
  \/ \E c \in Callers : StartStore(c)
  \/ \E c \in Callers : StartUnlock(c)
  \/ \E c \in Callers : StartPoll(c)
  \/ \E c \in Callers : StartSetJoinable(c)
  \/ \E c \in Callers : Stop(c)
  \/ \E c \in Callers : CallWait(c)
  \/ \E c \in Callers : WaitLock(c)
  \/ \E c \in Callers : WaitJoin(c)
  \/ \E c \in Callers : WaitNull(c)
  \/ \E c \in Callers : WaitAssert(c)
  \/ \E c \in Callers : WaitClearJoinable(c)
  \/ \E c \in Callers : Kill(c)
  \/ \E c \in Callers : KillSetRunning(c)
  \/ \E c \in Callers : KillTerminate(c)
  \/ \E c \in Callers : KillClearRetval(c)
  \/ \E c \in Callers : KillClearJoinable(c)
  \/ \E c \in Callers : KillClearStop(c)
  \/ \E c \in Callers : GetReturnValue(c)
  \/ \E c \in Callers : GrvRead(c)
  \/ \E i \in Ctx : TRegister(i)
  \/ \E i \in Ctx : TSetRunning(i)
  \/ \E i \in Ctx : TLockStartFinished(i)
  \/ \E i \in Ctx : TRunReturns(i)
  \/ \E i \in Ctx : TRunCancelled(i)
  \/ \E i \in Ctx : TClearRunning(i)
  \/ \E i \in Ctx : TDeregister(i)

\* any number of concurrent callers up to MaxCallers
Spec == Init /\ [][Next]_vars

\* one caller context only
InitSeq == Init /\ ncallers = 1
SpecSeq == InitSeq /\ [][Next]_vars

TypeOK ==
  /\ m_running \in BOOLEAN /\ m_joinable \in BOOLEAN
  /\ m_request_stop \in BOOLEAN
  /\ m_retval \in {NULL} \cup RetVals
  /\ m_thread_obj \in {NULL} \cup Ctx
  /\ m_mutex \in {0} \cup Callers
  /\ nthreads \in 0..MaxSpawn

\* ---- fair scheduling --------------------------------------------------
\* every step inside a call, and every step of a trampoline, is eventually
\* taken if it stays possible; callers are free never to make another call
CallerStep(c) ==
  \/ StartLock(c) \/ StartClearStop(c) \/ StartTryLock(c) \/ StartSpawn(c)
  \/ StartStore(c) \/ StartUnlock(c) \/ StartPoll(c) \/ StartSetJoinable(c)
  \/ WaitLock(c) \/ WaitJoin(c) \/ WaitNull(c) \/ WaitAssert(c)
  \/ WaitClearJoinable(c)
  \/ KillSetRunning(c) \/ KillTerminate(c) \/ KillClearRetval(c)
  \/ KillClearJoinable(c) \/ KillClearStop(c)
  \/ GrvRead(c)

ThreadStep(i) ==
  \/ TRegister(i) \/ TSetRunning(i) \/ TLockStartFinished(i)
  \/ TRunReturns(i) \/ TRunCancelled(i) \/ TClearRunning(i) \/ TDeregister(i)

Fairness ==
  /\ \A c \in Callers : WF_vars(CallerStep(c))
  /\ \A i \in Ctx : WF_vars(ThreadStep(i))

FairSpecSeq == InitSeq /\ [][Next]_vars /\ Fairness
\* ---- the claims --------------------------------------------------------
\* C1: while a single caller has done nothing but start(); wait(); start();
\* wait(); ... and no spawn has failed, every start() that has returned has
\* returned true, every wait() that has returned has returned true, and in
\* each cycle running changes from false to true once and from true to false
\* once: never more often, never falling before rising, and both changes
\* have happened when the wait() returns.
C1_StartWaitCycles ==
  cycle # "broken" =>
    /\ last.op = "start" => last.ret
    /\ last.op = "wait" /\ cycle = "boundary" =>
         last.ret /\ rises = 1 /\ falls = 1
    /\ rises <= 1
    /\ falls <= rises

\* two complete cycles on the same instance
C1_Witness ==
  /\ cycle = "boundary"
  /\ last = Returned(1, "wait", TRUE, -1)
  /\ nthreads >= 2
  /\ rises = 1 /\ falls = 1

\* C2: under fair scheduling, a start() whose spawn has succeeded eventually
\* returns true, whatever the work function does.
C2_StartReturns ==
  \A c \in Callers :
    (pc[c] = "start_store") ~> (last = Returned(c, "start", TRUE, -1))

\* the members, the locks and the native contexts
Members == <<m_running, m_joinable, m_request_stop, m_retval, m_thread_obj>>
Instance == <<Members, m_mutex, m_start_finished_mutex, ctxv>>

\* C3: a start() that finds running true returns false at once; neither the
\* call nor that return changes running, joinable, stopRequested,
\* returnValue or the handle, and no native context is spawned.
C3_StartWhileRunning ==
  [][\A c \in Callers :
       /\ pc[c] = "idle" /\ pc'[c] = "start_lock" => UNCHANGED Instance
       /\ pc[c] = "start_lock" /\ pc'[c] # "start_lock" /\ m_running =>
            /\ pc'[c] = "idle"
            /\ last' = Returned(c, "start", FALSE, -1)
            /\ UNCHANGED Instance]_vars

\* start() has returned false on an instance that is running
C3_Witness ==
  /\ last.op = "start" /\ ~last.ret
  /\ m_running /\ m_joinable
  /\ nthreads = 1 /\ tpc[1] = "run"

\* C4: a start() whose spawn fails returns false and leaves running,
\* joinable, stopRequested, returnValue, the handle and the startup mutex as
\* they were when it was called.
C4_SpawnFailureRestoresState ==
  [][\A c \in Callers :
       pc[c] = "start_spawn" /\ pc'[c] = "idle" =>
         /\ last' = Returned(c, "start", FALSE, -1)
         /\ <<m_running', m_joinable', m_request_stop', m_retval',
              m_thread_obj', m_start_finished_mutex'>> = pre[c]]_vars

\* C5: a wait() that finds joinable false returns false at once, joins
\* nothing, and neither the call nor that return changes running, joinable,
\* stopRequested, returnValue or the handle.
C5_WaitNotJoinable ==
  [][\A c \in Callers :
       /\ pc[c] = "idle" /\ pc'[c] = "wait_lock" /\ inKill'[c] = "no" =>
            UNCHANGED Instance
       /\ pc[c] = "wait_lock" /\ inKill[c] = "no" /\ pc'[c] # "wait_lock"
          /\ ~m_joinable =>
            /\ pc'[c] = "idle"
            /\ last' = Returned(c, "wait", FALSE, -1)
            /\ UNCHANGED Instance]_vars

\* wait() has returned false on a never-joined running context
C5_Witness ==
  /\ last.op = "wait" /\ ~last.ret
  /\ ~m_joinable
  /\ \E i \in Ctx : tpc[i] \in Live /\ ~joined[i]

\* C6: getReturnValue called while running is true returns false and writes
\* nothing; called while running is false it returns true, and if a work
\* function has returned V with no kill() or start() called since, it
\* writes exactly V.
C6_GetReturnValue ==
  [][\A c \in Callers :
       /\ pc[c] = "idle" /\ pc'[c] = "idle" /\ last' # last
          /\ last'.who = c /\ last'.op = "getReturnValue" /\ m_running =>
            last' = Returned(c, "getReturnValue", FALSE, -1)
       /\ pc[c] = "idle" /\ pc'[c] = "grv_read" => ~m_running
       /\ pc[c] = "grv_read" /\ pc'[c] # "grv_read" =>
            /\ pc'[c] = "idle"
            /\ last'.op = "getReturnValue" /\ last'.ret
            /\ lastRet # -1 => last'.out = lastRet]_vars

\* getReturnValue has delivered the value the work function returned
C6_Witness ==
  /\ last.op = "getReturnValue" /\ last.ret
  /\ lastRet \in RetVals
  /\ last.out = lastRet

\* caller c returns from kill() in this step
KillReturns(c) == pc[c] # "idle" /\ pc'[c] = "idle" /\ last'.op = "kill"

C8_KillLeavesNoHandle ==
  last.op = "kill" =>
    /\ m_thread_obj = NULL
    /\ nthreads > 0 => tpc[nthreads] \in Terminated /\ joined[nthreads]

\* C9: a kill() that found running false returns false, and when it returns
\* running and joinable are false and stopRequested and returnValue are what
\* they were when it was called; running and joinable stay false until the
\* caller's next call.  A never-started instance is one such case.
C9_KillNotRunning ==
  [][\A c \in Callers :
       /\ KillReturns(c) /\ ~pre[c][1] =>
            /\ last' = Returned(c, "kill", FALSE, -1)
            /\ ~m_running' /\ ~m_joinable'
            /\ m_request_stop' = pre[c][3]
            /\ m_retval' = pre[c][4]
       /\ last' = Returned(c, "kill", FALSE, -1) =>
            ~m_running' /\ ~m_joinable']_vars

\* kill() has returned false after reaping a finished, unjoined context,
\* with a stop request and a result in place
C9_Witness ==
  /\ last = Returned(1, "kill", FALSE, -1)
  /\ joined[1] /\ tpc[1] = "done"
  /\ m_request_stop /\ m_retval \in RetVals

\* C10: in every reachable state a caller between calls (in a behaviour
\* with calls left) can complete stop() in one step, whoever holds the
\* instance lock; stop() returns true,
\* sets stopRequested and changes no other member, lock or native context.
C10_StopNeverBlocks ==
  /\ [](\A c \in Callers : Idle(c) /\ CallsLeft => ENABLED Stop(c))
  /\ [][\A c \in Callers : Stop(c) =>
          /\ m_request_stop'
          /\ last' = Returned(c, "stop", TRUE, -1)
          /\ pc' = pc
          /\ UNCHANGED <<m_running, m_joinable, m_retval, m_thread_obj,
                         locks, ctxv>>]_vars

\* stop() has returned true while the other caller holds the instance lock
\* inside start(), polling
C10_Witness ==
  /\ last = Returned(2, "stop", TRUE, -1)
  /\ m_mutex = 1 /\ pc[1] = "start_poll"
  /\ m_request_stop

\* C11: with a work function that returns once it has seen stopRequested,
\* a sole caller's start(); stop(); wait() ends, under fair scheduling, with
\* wait() returning true.
C11_StopThenWaitReturns ==
  (scen = "wait" /\ workReturns = "onstop")
    ~> (scen = "wait" /\ last = Returned(1, "wait", TRUE, -1))

\* the wait() of the sequence has returned true after the work function saw
\* the stop request and returned
C11_Witness ==
  /\ scen = "wait" /\ workReturns = "onstop"
  /\ last = Returned(1, "wait", TRUE, -1)
  /\ m_request_stop /\ m_retval \in RetVals
  /\ \E i \in Ctx : tpc[i] = "done" /\ joined[i]

\* the native context whose handle start() has created but not yet stored
Unpublished(i) == \E c \in Callers : newObj[c] = i

\* C12: no native context is in (or past) its work function while start()
\* has not yet stored its handle; the startup mutex is held from before the
\* spawn until the handle is stored, and it is start() that releases it,
\* after storing the handle of the context it spawned.
C12_NoWorkBeforeHandle ==
  /\ [](\A i \in Ctx : tpc[i] \in {"run", "ret", "exit", "done", "cancelled"}
                          => ~Unpublished(i))
  /\ [](\A c \in Callers : pc[c] \in {"start_spawn", "start_store"}
                              => m_start_finished_mutex)
  /\ [][m_start_finished_mutex /\ ~m_start_finished_mutex' =>
          \E c \in Callers :
            /\ pc[c] = "start_unlock" /\ pc'[c] = "start_poll"
            /\ newObj[c] = NULL
            /\ m_thread_obj = nthreads]_vars

\* a restart: the second context runs its work function, with its handle
\* stored, after the first one was reaped
C12_Witness ==
  /\ nthreads = 2 /\ tpc[2] = "run" /\ m_thread_obj = 2
  /\ joined[1]

\* the native contexts that are spawned and have not terminated
LiveContexts == IF alive THEN {i \in Ctx : tpc[i] \in Live} ELSE {}

\* C13: in every reachable state at most one native context spawned by the
\* instance is live.
C13_AtMostOneLiveContext == Cardinality(LiveContexts) <= 1

\* C14: running changes from false to true only by a step of a trampoline
\* whose handle start() has already stored in the instance, and from true
\* to false only by a trampoline whose work function has returned or by
\* kill().
C14_RunningTransitions ==
  [][/\ ~m_running /\ m_running' =>
          \E i \in Ctx :
            /\ tpc[i] # tpc'[i]
            /\ ~Unpublished(i) /\ m_thread_obj = i
            /\ \A c \in Callers :
                 pc[c] \notin {"start_spawn", "start_store"}
     /\ m_running /\ ~m_running' =>
          \/ \E i \in Ctx : tpc[i] = "ret" /\ tpc'[i] = "exit"
          \/ \E c \in Callers :
               pc[c] = "kill_setrun" /\ pc'[c] = "kill_term"]_vars

\* C15: the assertion of wait() never fails; a wait() that returns true
\* (to its caller, or inside kill()) leaves joinable false and the handle
\* null.
C15_WaitAssertHolds ==
  /\ [](~assertFailed)
  /\ [][\A c \in Callers :
          pc[c] = "wait_clear" /\ pc'[c] # "wait_clear" =>
            /\ ~m_joinable' /\ m_thread_obj' = NULL
            /\ inKill[c] = "no" => last' = Returned(c, "wait", TRUE, -1)]_vars

\* C16 (as claimed): in every reachable state joinable implies a non-null
\* handle of a spawned context that has not been joined.
C16_JoinableImpliesHandle ==
  m_joinable => m_thread_obj # NULL /\ ~joined[m_thread_obj]

\* C19: every native context the instance has spawned is joined, or is the
\* one the handle refers to, or is the one start() is about to store.
C19_NoHandleLost ==
  \A i \in 1..nthreads :
    joined[i] \/ m_thread_obj = i \/ Unpublished(i)

\* C20: there is no reachable state in which start() holds the instance
\* lock polling for running while kill() has reset running and waits for
\* that lock in its wait().
C20_NoStartKillDeadlock ==
  ~ \E c, d \in Callers :
      /\ pc[c] = "start_poll" /\ m_mutex = c /\ ~m_running
      /\ pc[d] = "wait_lock" /\ inKill[d] = "cancel"
      /\ \A i \in Ctx : tpc[i] \notin {"entry", "registered"}

\* wait() is between its join and its clearing of joinable
Reaping == \E c \in Callers : pc[c] \in {"wait_null", "wait_assert", "wait_clear"}

\* C16 (amended): in every reachable state in which no wait() is between
\* its join and its clearing of joinable, joinable implies a non-null handle
\* of a spawned context that has not been joined.
C16_JoinableImpliesHandleOutsideWait ==
  m_joinable /\ ~Reaping =>
    /\ m_thread_obj \in 1..nthreads
    /\ ~joined[m_thread_obj]

\* after a restart: joinable, with the handle of the second context, which
\* is live and not joined
C16_Witness ==
  /\ m_joinable /\ ~Reaping
  /\ m_thread_obj = 2 /\ tpc[2] \in Live /\ ~joined[2]
  /\ joined[1]

\* the steps of the trampoline of context i, in the order of the code, each
\* with its effect
TrampolineStep(i) ==
  \/ tpc[i] = "entry" /\ tpc'[i] = "registered" /\ nRegister' = nRegister + 1
  \/ tpc[i] = "registered" /\ tpc'[i] = "lock" /\ m_running'
  \/ /\ tpc[i] = "lock" /\ tpc'[i] = "run"
     /\ ~m_start_finished_mutex /\ m_start_finished_mutex'
  \/ tpc[i] = "run" /\ tpc'[i] = "ret" /\ m_retval' \in RetVals
  \/ tpc[i] = "ret" /\ tpc'[i] = "exit" /\ ~m_running'
  \/ tpc[i] = "exit" /\ tpc'[i] = "done" /\ nDeregister' = nDeregister + 1

\* the work function of context i has not returned
BeforeReturn(i) == tpc[i] \in {"entry", "registered", "lock", "run"}

\* C17 (as claimed): a spawned context advances only by the steps of the
\* trampoline in their order (register, running := true, acquire the
\* startup mutex, work function, store the result, running := false,
\* deregister); only a run whose work function has not returned ends in
\* another way.
C17_TrampolineOrder ==
  [][\A i \in Ctx :
       tpc[i] # "unborn" /\ tpc'[i] # tpc[i] =>
         \/ TrampolineStep(i)
         \/ BeforeReturn(i) /\ tpc'[i] \in {"killed", "cancelled"}]_vars

\* C17 (amended): a spawned context advances only by the steps of the
\* trampoline in their order, each once, unless kill() ends it by force:
\* inside the work function on the pthread path, at any step on the _WIN32
\* path.
C17_TrampolineOrderUnlessKilled ==
  [][\A i \in Ctx :
       tpc[i] # "unborn" /\ tpc'[i] # tpc[i] =>
         \/ TrampolineStep(i)
         \/ tpc[i] = "run" /\ tpc'[i] = "cancelled" /\ platform = "pthread"
         \/ tpc[i] \in Live /\ tpc'[i] = "killed" /\ platform = "win32"]_vars

\* a context has performed every step of the trampoline and returned
C17_Witness ==
  \E i \in Ctx :
    /\ tpc[i] = "done"
    /\ nRegister >= 1 /\ nDeregister >= 1
    /\ m_retval \in RetVals /\ ~m_running /\ m_start_finished_mutex

\* no call is in progress, the latest call to return was a wait() or a
\* kill(), and no native context is live
Reaped ==
  /\ alive
  /\ \A c \in Callers : pc[c] = "idle"
  /\ last.op \in {"wait", "kill"}
  /\ LiveContexts = {}

\* C18 (as claimed): whenever the instance is back to having no live native
\* context after a wait() or kill(), as many deregisterThread as
\* registerThread calls have been made.
C18_RegisterMatched == Reaped => nDeregister = nRegister

\* the contexts that kill() has ended
Killed == {i \in Ctx : tpc[i] \in {"killed", "cancelled"}}

\* C18 (amended): every context that returned from the trampoline has made
\* one deregisterThread call, and none else has: whenever the instance is
\* back to having no live native context and no run was ended by kill(), as
\* many deregisterThread as registerThread calls have been made; a run
\* ended by kill() leaves at most its own registration unmatched.
C18_RegisterMatchedUnlessKilled ==
  /\ nDeregister = Cardinality({i \in Ctx : tpc[i] = "done"})
  /\ Reaped =>
       /\ nDeregister <= nRegister
       /\ nRegister <= nDeregister + Cardinality(Killed)
       /\ Killed = {} => nDeregister = nRegister

\* two runs have been reaped, each registered and deregistered once
C18_Witness ==
  /\ Reaped /\ Killed = {}
  /\ nRegister = 2 /\ nDeregister = 2
====
